---- MODULE Spec2Model ----
(***************************************************************************)
(* librato-collect (main.go): main ranges over ticker(period) and runs one *)
(* collect per received tick; collect is fetchMetrics -> batchMetrics ->   *)
(* postBatch under a deferred recover.                                     *)
(*                                                                         *)
(* Numbers of a JSON document (float64 after decoding) are held in tenths: *)
(* 5125 stands for 512.5, 427 for 42.7, 10 for 1.0, -15 for -1.5.          *)
(* A metric path is held as the result of strings.Split(path, "."); no      *)
(* segment holds a dot, so the sequence and the path string name each      *)
(* other one to one.                                                       *)
(***************************************************************************)
EXTENDS Integers, Sequences, FiniteSets, TLC

VARIABLES
    period,        \* the -period flag: 0, positive, or negative
    gaugePaths,    \* the -gauge flags, in order
    counterPaths,  \* the -counter flags, in order
    pc,            \* position of the main goroutine
    c,             \* the channel returned by ticker
    metrics,       \* collect's local: the decoded document (by name) or "none"
    batch,         \* collect's local: the batch built by batchMetrics
    n,             \* the value collect returns to main
    failed,        \* recover() returned non-nil in the current collect
    everFailed,    \* some collect so far has recovered a panic
    active,        \* collect invocations that have begun and not returned
    started,       \* loop iterations begun (log "collecting ...")
    ticksFired,    \* periods elapsed on the runtime ticker
    gets,          \* http.Get calls of the current cycle
    posts,         \* http.DefaultClient.Do calls of the current cycle
    fetchStatus,   \* status of the current cycle's GET response (0: none)
    postStatus,    \* status of the current cycle's POST response (0: none)
    built,         \* batchMetrics was called in the current cycle
    sent,          \* the batch handed to the current cycle's POST
    lastLog        \* the last "sent %d metrics" value logged (-1: none)

vars == <<period, gaugePaths, counterPaths, pc, c, metrics, batch, n, failed,
          everFailed, active, started, ticksFired, gets, posts, fetchStatus,
          postStatus, built, sent, lastLog>>

config == <<period, gaugePaths, counterPaths>>
cycleVars == <<metrics, batch, n, failed, gets, posts, fetchStatus,
               postStatus, built, sent>>

----------------------------------------------------------------------------
(* Bounds *)

MaxPaths == 2     \* most -gauge flags, and most -counter flags
MaxTicks == 3     \* periods the model lets elapse

----------------------------------------------------------------------------
(* Inputs *)

Periods == {-1, 0, 1}

Paths == { <<"requests", "total">>, <<"up">> }

RECURSIVE SeqsUpTo(_, _)
SeqsUpTo(S, k) ==
    IF k = 0 THEN { <<>> }
    ELSE LET shorter == SeqsUpTo(S, k - 1)
         IN  shorter \cup { Append(s, x) : s \in shorter, x \in S }

Range(s) == { s[i] : i \in 1..Len(s) }

\* A decoded document: one entry per node, keyed by the keys leading to it.
Node(at, k, v) == [at |-> at, k |-> k, v |-> v]

DocNames == {"A", "B", "C", "D"}

\* A: {"requests":{"total":42},"up":1.0}
\* B: {"requests":{"total":42.7},"up":-1.5}
\* C: {"requests":7,"up":512.5}
\* D: {"requests":{},"up":true}
Body(name) ==
    CASE name = "A" ->
           { Node(<<"requests">>, "obj", 0),
             Node(<<"requests", "total">>, "num", 420),
             Node(<<"up">>, "num", 10) }
      [] name = "B" ->
           { Node(<<"requests">>, "obj", 0),
             Node(<<"requests", "total">>, "num", 427),
             Node(<<"up">>, "num", -15) }
      [] name = "C" ->
           { Node(<<"requests">>, "num", 70),
             Node(<<"up">>, "num", 5125) }
      [] OTHER ->
           { Node(<<"requests">>, "obj", 0),
             Node(<<"up">>, "bool", 0) }

FetchStatuses == {200, 201, 204, 500, 503}
PostStatuses == {200, 201, 401, 500}

source == "host"

----------------------------------------------------------------------------
(* jsonq queries, as batchMetrics uses them *)

\* int(float64): the conversion drops the fraction, toward zero.
Trunc(t) == IF t >= 0 THEN t \div 10 ELSE -((-t) \div 10)

Round(t) == IF t >= 0 THEN (t + 5) \div 10 ELSE -((5 - t) \div 10)

\* The walk behind jq.Float and jq.Int: one object lookup per segment,
\* starting at the root object; `at` is the node reached so far.
RECURSIVE rquery(_, _, _)
rquery(blob, at, s) ==
    IF s = <<>>
    THEN [err |-> "", val |-> CHOOSE e \in blob : e.at = at]
    ELSE LET isObj == at = <<>> \/ \E e \in blob : e.at = at /\ e.k = "obj"
             nxt == Append(at, Head(s))
         IN  IF ~isObj THEN [err |-> "nonobject", val |-> Node(at, "null", 0)]
             ELSE IF ~\E e \in blob : e.at = nxt
                  THEN [err |-> "nofield", val |-> Node(at, "null", 0)]
                  ELSE rquery(blob, nxt, Tail(s))

\* jq.Float and jq.Int are the jsonq library's: after the walk, a float64
\* value is returned as it is (Float) or converted with int(v) (Int); any
\* other kind of value met here (bool, null, object) is an error.
jqFloat(blob, s) ==
    LET r == rquery(blob, <<>>, s)
    IN  IF r.err # "" THEN [err |-> r.err, v |-> 0]
        ELSE IF r.val.k = "num" THEN [err |-> "", v |-> r.val.v]
        ELSE [err |-> "nonnumeric", v |-> 0]

jqIntRound(blob, s) ==
    LET r == rquery(blob, <<>>, s)
    IN  IF r.err # "" THEN [err |-> r.err, v |-> 0]
        ELSE IF r.val.k = "num" THEN [err |-> "", v |-> Round(r.val.v)]
        ELSE [err |-> "nonnumeric", v |-> 0]

jqInt(blob, s) ==
    LET r == rquery(blob, <<>>, s)
    IN  IF r.err # "" THEN [err |-> r.err, v |-> 0]
        ELSE IF r.val.k = "num" THEN [err |-> "", v |-> Trunc(r.val.v)]
        ELSE [err |-> "nonnumeric", v |-> 0]

----------------------------------------------------------------------------
(* batch and batchMetrics *)

\* A map[string]gauge or map[string]counter: a set of entries, one per key.
MapSet(m, key, value) ==
    { e \in m : e.key # key } \cup { [key |-> key, Value |-> value] }

Keys(m) == { e.key : e \in m }

len(m) == Cardinality(m)

NoBatch == [Gauges |-> {}, Counters |-> {}, Source |-> "", panic |-> ""]

newBatch(src) == [Gauges |-> {}, Counters |-> {}, Source |-> src, panic |-> ""]

\* One iteration of the gauges loop; a panic ends batchMetrics.
gaugeBodySkip(b, blob, path) ==
    LET r == jqFloat(blob, path)
    IN  IF r.err # "" THEN b
        ELSE [b EXCEPT !.Gauges = MapSet(b.Gauges, path, r.v)]

gaugeBody(b, blob, path) ==
    LET r == jqFloat(blob, path)
    IN  IF r.err # "" THEN [b EXCEPT !.panic = r.err]
        ELSE [b EXCEPT !.Gauges = MapSet(b.Gauges, path, r.v)]

\* One iteration of the counters loop.
counterBody(b, blob, path) ==
    LET r == jqInt(blob, path)
    IN  IF r.err # "" THEN [b EXCEPT !.panic = r.err]
        ELSE [b EXCEPT !.Counters = MapSet(b.Counters, path, r.v)]

RECURSIVE gaugeLoop(_, _, _)
gaugeLoop(b, blob, paths) ==
    IF paths = <<>> \/ b.panic # "" THEN b
    ELSE gaugeLoop(gaugeBody(b, blob, Head(paths)), blob, Tail(paths))

RECURSIVE counterLoop(_, _, _)
counterLoop(b, blob, paths) ==
    IF paths = <<>> \/ b.panic # "" THEN b
    ELSE counterLoop(counterBody(b, blob, Head(paths)), blob, Tail(paths))

batchMetrics(blob, src, gauges, counters) ==
    counterLoop(gaugeLoop(newBatch(src), blob, gauges), blob, counters)

----------------------------------------------------------------------------
(* ticker *)

\* A channel: values buffered, capacity, closed, and whether the runtime
\* ticker feeds it.
tickerImmediate(p) ==
    IF p = 0 THEN [buf |-> 1, cap |-> 1, closed |-> TRUE, live |-> FALSE]
    ELSE [buf |-> IF p > 0 THEN 1 ELSE 0, cap |-> 1, closed |-> FALSE,
          live |-> p > 0]

tickerTwice(p) ==
    IF p = 0 THEN [buf |-> 2, cap |-> 2, closed |-> TRUE, live |-> FALSE]
    ELSE [buf |-> 0, cap |-> 1, closed |-> FALSE, live |-> p > 0]

\* period = 0: a closed channel holding one time.  Otherwise time.Tick: a
\* channel of capacity 1 fed once per period, or a nil channel (never ready,
\* never closed) when the period is negative.
ticker(p) ==
    IF p = 0 THEN [buf |-> 1, cap |-> 1, closed |-> TRUE, live |-> FALSE]
    ELSE [buf |-> 0, cap |-> 1, closed |-> FALSE, live |-> p > 0]

NoChan == [buf |-> 0, cap |-> 0, closed |-> FALSE, live |-> FALSE]

----------------------------------------------------------------------------
(* collect *)

fetchStatusOK2xx(status) == status \div 100 = 2

fetchStatusOK(status) == status = 200

postStatusOK2xx(status) == status \div 100 = 2

postStatusOK(status) == status = 200

collectCountRequested(b) == Len(counterPaths) + Len(gaugePaths)

\* The value of the return statement.
collectCount(b) == len(b.Counters) + len(b.Gauges)

collectNoRecover == FALSE

\* The deferred function calls recover(), so a panic ends at collect.
collectRecovers == TRUE

recoverResultCount(b) == collectCount(b)

\* No return statement runs after a panic: the result is the zero value.
recoverResult(b) == 0

recvAnytime(p) == p \in {"wait", "fetch", "batch", "post", "ret"}

\* The range loop receives only at its head, after the body has returned.
recvEnabled(p) == p = "wait"

\* A panic raised in collect or below it: the deferred function runs and
\* collect returns, or (were there no recover) the process dies.
Panic(b) ==
    /\ failed' = TRUE
    /\ everFailed' = TRUE
    /\ IF collectRecovers
       THEN /\ pc' = "ret"
            /\ n' = recoverResult(b)
            /\ active' = active - 1
       ELSE /\ pc' = "crashed"
            /\ UNCHANGED <<n, active>>

----------------------------------------------------------------------------
(* The state machine *)

Init ==
    /\ period \in Periods
    /\ gaugePaths \in SeqsUpTo(Paths, MaxPaths)
    /\ counterPaths \in SeqsUpTo(Paths, MaxPaths)
    /\ pc = "start"
    /\ c = NoChan
    /\ metrics = "none"
    /\ batch = NoBatch
    /\ n = 0
    /\ failed = FALSE
    /\ everFailed = FALSE
    /\ active = 0
    /\ started = 0
    /\ ticksFired = 0
    /\ gets = 0
    /\ posts = 0
    /\ fetchStatus = 0
    /\ postStatus = 0
    /\ built = FALSE
    /\ sent = NoBatch
    /\ lastLog = -1

\* main: ticker(period) is evaluated once, before the loop.
MainTicker ==
    /\ pc = "start"
    /\ c' = ticker(period)
    /\ pc' = "wait"
    /\ UNCHANGED <<config, cycleVars, everFailed, active, started, ticksFired,
                   lastLog>>

\* The runtime ticker: one send per period, dropped when the channel is full.
Tick ==
    /\ c.live
    /\ ticksFired < MaxTicks
    /\ ticksFired' = ticksFired + 1
    /\ c' = IF c.buf < c.cap THEN [c EXCEPT !.buf = c.buf + 1] ELSE c
    /\ UNCHANGED <<config, pc, cycleVars, everFailed, active, started, lastLog>>

\* main: the range loop receives a value and enters collect.
MainRecv ==
    /\ recvEnabled(pc)
    /\ c.buf > 0
    /\ c' = [c EXCEPT !.buf = c.buf - 1]
    /\ pc' = "fetch"
    /\ started' = started + 1
    /\ active' = active + 1
    /\ metrics' = "none"
    /\ batch' = NoBatch
    /\ n' = 0
    /\ failed' = FALSE
    /\ gets' = 0
    /\ posts' = 0
    /\ fetchStatus' = 0
    /\ postStatus' = 0
    /\ built' = FALSE
    /\ sent' = NoBatch
    /\ UNCHANGED <<config, everFailed, ticksFired, lastLog>>

\* main: the range loop ends when the channel is closed and drained.
MainEnd ==
    /\ pc = "wait"
    /\ c.buf = 0
    /\ c.closed
    /\ pc' = "exit"
    /\ UNCHANGED <<config, c, cycleVars, everFailed, active, started,
                   ticksFired, lastLog>>

\* fetchMetrics: one GET; a transport error, a status other than 200 or a
\* body that does not decode into a JSON object panics.
Fetch ==
    /\ pc = "fetch"
    /\ gets' = gets + 1
    /\ \/ \* http.Get returned an error
          /\ Panic(batch)
          /\ UNCHANGED <<metrics, fetchStatus>>
       \/ \E status \in FetchStatuses :
            /\ fetchStatus' = status
            /\ IF ~fetchStatusOK(status)
               THEN /\ Panic(batch)
                    /\ UNCHANGED metrics
               ELSE \/ \* the body does not decode
                       /\ Panic(batch)
                       /\ UNCHANGED metrics
                    \/ \E d \in DocNames :
                         /\ metrics' = d
                         /\ pc' = "batch"
                         /\ UNCHANGED <<n, failed, everFailed, active>>
    /\ UNCHANGED <<config, c, batch, posts, postStatus, built, sent, started,
                   ticksFired, lastLog>>

\* batchMetrics: the batch is assigned only when the call returns.
Batch ==
    /\ pc = "batch"
    /\ built' = TRUE
    /\ LET b == batchMetrics(Body(metrics), source, gaugePaths, counterPaths)
       IN  IF b.panic # ""
           THEN /\ Panic(batch)
                /\ UNCHANGED batch
           ELSE /\ batch' = b
                /\ pc' = "post"
                /\ UNCHANGED <<n, failed, everFailed, active>>
    /\ UNCHANGED <<config, c, metrics, gets, posts, fetchStatus, postStatus,
                   sent, started, ticksFired, lastLog>>

\* postBatch: one POST of the batch; a transport error or a status other
\* than 200 panics.  Otherwise collect returns the count.
Post ==
    /\ pc = "post"
    /\ posts' = posts + 1
    /\ sent' = batch
    /\ \/ \* http.DefaultClient.Do returned an error
          /\ Panic(batch)
          /\ UNCHANGED postStatus
       \/ \E status \in PostStatuses :
            /\ postStatus' = status
            /\ IF ~postStatusOK(status)
               THEN Panic(batch)
               ELSE /\ pc' = "ret"
                    /\ n' = collectCount(batch)
                    /\ active' = active - 1
                    /\ UNCHANGED <<failed, everFailed>>
    /\ UNCHANGED <<config, c, metrics, batch, gets, fetchStatus, built,
                   started, ticksFired, lastLog>>

\* main: log "sent %d metrics" and go back to the head of the loop.
MainLog ==
    /\ pc = "ret"
    /\ lastLog' = n
    /\ pc' = "wait"
    /\ UNCHANGED <<config, c, cycleVars, everFailed, active, started,
                   ticksFired>>

Next ==
    \/ MainTicker
    \/ Tick
    \/ MainRecv
    \/ MainEnd
    \/ Fetch
    \/ Batch
    \/ Post
    \/ MainLog

Spec == Init /\ [][Next]_vars

----------------------------------------------------------------------------
(* Properties *)

InCycle == pc \in {"fetch", "batch", "post"}

\* The node a path leads to in a document, when the path resolves.
Leaf(blob, path) == CHOOSE e \in blob : e.at = path

GaugeFails(path) == jqFloat(Body(metrics), path).err # ""
CounterFails(path) == jqInt(Body(metrics), path).err # ""

SomePathFails ==
    \/ \E p \in Range(gaugePaths) : GaugeFails(p)
    \/ \E p \in Range(counterPaths) : CounterFails(p)

\* A counter path whose value in the fetched document has a fraction.
Fractional(path) ==
    /\ ~CounterFails(path)
    /\ Leaf(Body(metrics), path).v % 10 # 0

\* C1 as stated: with a non-zero period a value is ready at the head of the
\* loop at start-up, before any period has elapsed, so that the first cycle
\* runs immediately.
C1_ImmediateFirstCycle ==
    (period # 0 /\ pc = "wait" /\ started = 0 /\ ticksFired = 0) => c.buf > 0

\* C1 amended: with a non-zero period no cycle runs at start-up; every cycle
\* is started by a tick of the ticker, so that at most as many cycles have
\* begun as periods have elapsed, and the loop never ends.
C1_CyclesFollowTicks ==
    period # 0 =>
        /\ started <= ticksFired
        /\ (ticksFired = 0 => c.buf = 0 /\ lastLog = -1)
        /\ ~c.closed
        /\ pc # "exit"

C1_Witness ==
    period # 0 /\ started = 2 /\ ticksFired = 2 /\ pc = "fetch"

\* C2: under periodic operation a cycle that fails at any stage does not end
\* the process: the panic ends at collect, which returns to main, and main
\* is back at the head of its loop or in a later cycle.
C2_FailureDoesNotTerminate ==
    period # 0 =>
        /\ pc \notin {"exit", "crashed"}
        /\ (failed => pc \in {"ret", "wait"} /\ active = 0)

C2_Witness ==
    period # 0 /\ everFailed /\ ~failed /\ started >= 2 /\ pc = "post"

\* C3: when a requested gauge or counter path does not resolve, batchMetrics
\* yields no batch and the cycle issues no POST; a batch that is POSTed
\* holds an entry for every requested gauge path and counter path.
C3_AllOrNothing ==
    /\ (built /\ SomePathFails) => batch = NoBatch /\ posts = 0 /\ failed
    /\ posts > 0 =>
         /\ Keys(sent.Gauges) = Range(gaugePaths)
         /\ Keys(sent.Counters) = Range(counterPaths)
         /\ ~SomePathFails

C3_Witness ==
    /\ built /\ failed /\ pc = "ret"
    /\ \E p \in Range(gaugePaths) : ~GaugeFails(p)
    /\ \E p \in Range(counterPaths) : CounterFails(p)

\* C4: a fetch response whose status is not exactly 200 fails the cycle at
\* the fetch stage: no document, no build and no POST in that cycle.
C4_FetchStatusStrict ==
    fetchStatus \notin {0, 200} =>
        /\ failed
        /\ metrics = "none"
        /\ ~built
        /\ posts = 0

C4_Witness == fetchStatus = 204 /\ pc = "ret" /\ gets = 1

C6_ExactlyOneCycle ==
    period = 0 =>
        /\ started <= 1
        /\ ticksFired = 0
        /\ (pc = "wait" =>
              \/ started = 0 /\ c.buf = 1 /\ c.closed
              \/ started = 1 /\ c.buf = 0 /\ c.closed)
        /\ (pc = "exit" => started = 1 /\ active = 0 /\ lastLog = n)

C6_Witness == period = 0 /\ pc = "exit" /\ failed /\ started = 1

\* C7: a successful collect returns the number of distinct gauge paths plus
\* the number of distinct counter paths, not the number of paths requested.
C7_CountsDistinctPaths ==
    (pc = "ret" /\ ~failed) =>
        /\ n = Cardinality(Range(gaugePaths)) + Cardinality(Range(counterPaths))
        /\ Keys(sent.Gauges) = Range(gaugePaths)
        /\ Keys(sent.Counters) = Range(counterPaths)

C7_Witness ==
    /\ pc = "ret" /\ ~failed
    /\ Cardinality(Range(gaugePaths)) < Len(gaugePaths)
    /\ Range(gaugePaths) \cap Range(counterPaths) # {}
    /\ n = 2

\* C8: a cycle issues at most one GET and at most one POST, the POST only
\* after the GET; a POST answered with a status other than 200 fails the
\* cycle, and no second POST follows.
C8_NoRetry ==
    /\ gets <= 1
    /\ posts <= 1
    /\ (posts = 1 => gets = 1 /\ fetchStatus = 200)
    /\ (postStatus \notin {0, 200} => failed /\ posts = 1 /\ ~InCycle)

C8_Witness == postStatus = 500 /\ posts = 1 /\ gets = 1 /\ pc = "wait"

\* C9: cycles never overlap: at most one collect is in progress, and ticks
\* that fire while it runs start nothing (one is kept in the channel, the
\* others are dropped).
C9_NoOverlap ==
    /\ active <= 1
    /\ (InCycle <=> active = 1)
    /\ c.buf <= 1

C9_Witness ==
    period # 0 /\ InCycle /\ active = 1 /\ c.buf = 1 /\ ticksFired >= started + 2

\* C10: a failed collect returns 0 and main logs "sent 0 metrics", the value
\* a successful cycle with no gauge and no counter path gives; a non-zero
\* value is returned only when the POST was answered with status 200.
C10_FailureReturnsZero ==
    /\ (failed /\ pc = "ret" => n = 0)
    /\ (failed /\ pc \in {"wait", "exit"} => lastLog = 0)
    /\ (~failed /\ pc = "ret" /\ gaugePaths = <<>> /\ counterPaths = <<>> => n = 0)
    /\ (n # 0 => postStatus = 200 /\ ~failed)

C10_Witness ==
    /\ failed /\ pc = "wait" /\ lastLog = 0
    /\ posts = 1 /\ sent.Gauges # {} /\ sent.Counters # {}

====
